---- MODULE Spec2Model ----
(***************************************************************************)
(* A model of scripts/bib_to_html.py: the LaTeX-to-Unicode normalizer, the *)
(* author formatter and the main() pipeline that groups, sorts, numbers    *)
(* and renders bibliography records and writes the output file.            *)
(*                                                                         *)
(* A Python str is a sequence of characters; a character is a one-letter   *)
(* TLA+ string, and a non-ASCII character is written "U+XXXX".  None is a  *)
(* value that is no str.  A record (a bibtexparser entry) is a function    *)
(* from the names of the fields it has to their values.  The grave accent  *)
(* character, which a TLA+ string cannot hold, is written "U+0060".        *)
(***************************************************************************)
EXTENDS Integers, Sequences, FiniteSets, TLC

VARIABLES
    pc,               \* position of the run in main(), or in the function called
    entries,          \* bib_database.entries
    grouped_by_year,  \* the dict, as its items in insertion order
    sorted_years,     \* the sorted group keys
    html_lines,       \* the generated lines
    current_number,   \* the running list number
    year_idx,         \* position of the `for year in sorted_years` loop
    papers_in_year,   \* the sorted entries of the group being rendered
    entry_idx,        \* position of the `for entry in papers_in_year` loop
    outfile,          \* what OUTPUT_FILE holds on disk
    message,          \* what main() printed
    text,             \* latex_to_unicode: its argument
    s,                \* latex_to_unicode: its result
    authors_raw,      \* format_authors: its argument
    norm_parts,       \* format_authors: the list of names
    authors           \* format_authors: its result

vars == <<pc, entries, grouped_by_year, sorted_years, html_lines, current_number,
          year_idx, papers_in_year, entry_idx, outfile, message,
          text, s, authors_raw, norm_parts, authors>>

mainVars == <<entries, grouped_by_year, sorted_years, html_lines, current_number,
              year_idx, papers_in_year, entry_idx, outfile, message>>

textVars == <<text, s>>

authorVars == <<authors_raw, norm_parts, authors>>

---------------------------------------------------------------------------
(* Python's str and None *)

None == <<"<None>">>

\* bool(v) of a str or None
Truthy(v) == v # None /\ v # <<>>

\* str(v), as an f-string formats it
Str(v) == IF v = None THEN <<"N", "o", "n", "e">> ELSE v

\* entry.get(field, default)
Get(entry, field, default) == IF field \in DOMAIN entry THEN entry[field] ELSE default

\* the printable ASCII characters, in code point order from 32
Ascii ==
    <<" ", "!", "\"", "#", "$", "%", "&", "'", "(", ")", "*", "+", ",", "-", ".", "/",
      "0", "1", "2", "3", "4", "5", "6", "7", "8", "9", ":", ";", "<", "=", ">", "?",
      "@", "A", "B", "C", "D", "E", "F", "G", "H", "I", "J", "K", "L", "M", "N", "O",
      "P", "Q", "R", "S", "T", "U", "V", "W", "X", "Y", "Z", "[", "\\", "]", "^", "_",
      "U+0060", "a", "b", "c", "d", "e", "f", "g", "h", "i", "j", "k", "l", "m", "n", "o",
      "p", "q", "r", "s", "t", "u", "v", "w", "x", "y", "z", "{", "|", "}", "~">>

\* ord(c), of an ASCII character
CodePoint(c) ==
    IF c = "\t" THEN 9
    ELSE IF c = "\n" THEN 10
    ELSE 31 + CHOOSE i \in 1..Len(Ascii) : Ascii[i] = c

UpperLetters == { Ascii[i] : i \in 34..59 }

LowerLetters == { Ascii[i] : i \in 66..91 }

\* [A-Za-z]
Letters == UpperLetters \cup LowerLetters

\* [0-9]
Digits == { Ascii[i] : i \in 17..26 }

\* what \s matches and str.strip() strips
Whitespace == {" ", "\t", "\n", "\r", "\f"}

\* c.lower()
LowerChar(c) == IF c \in UpperLetters THEN Ascii[CodePoint(c) - 31 + 32] ELSE c

\* str.lower()
Lower(str) == [i \in 1..Len(str) |-> LowerChar(str[i])]

\* a < b on strs: lexicographic by code point
RECURSIVE StrLess(_, _)
StrLess(a, b) ==
    IF b = <<>> THEN FALSE
    ELSE IF a = <<>> THEN TRUE
    ELSE IF Head(a) = Head(b) THEN StrLess(Tail(a), Tail(b))
    ELSE CodePoint(Head(a)) < CodePoint(Head(b))

\* str.startswith(prefix)
StartsWith(str, prefix) ==
    Len(str) >= Len(prefix) /\ SubSeq(str, 1, Len(prefix)) = prefix

\* str.replace(old, new), old not empty: left to right, not overlapping
RECURSIVE Replace(_, _, _)
Replace(str, old, new) ==
    IF Len(str) < Len(old) THEN str
    ELSE IF StartsWith(str, old)
         THEN new \o Replace(SubSeq(str, Len(old) + 1, Len(str)), old, new)
         ELSE <<Head(str)>> \o Replace(Tail(str), old, new)

\* `sub in str`
Contains(str, sub) ==
    \E i \in 1..(Len(str) - Len(sub) + 1) : SubSeq(str, i, i + Len(sub) - 1) = sub

RECURSIVE LStrip(_, _)
LStrip(str, chars) ==
    IF str # <<>> /\ Head(str) \in chars THEN LStrip(Tail(str), chars) ELSE str

RECURSIVE RStrip(_, _)
RStrip(str, chars) ==
    IF str # <<>> /\ str[Len(str)] \in chars
    THEN RStrip(SubSeq(str, 1, Len(str) - 1), chars)
    ELSE str

\* str.strip(chars); str.strip() is Strip(str, Whitespace)
Strip(str, chars) == RStrip(LStrip(str, chars), chars)

\* sep.join(parts)
RECURSIVE Join(_, _)
Join(parts, sep) ==
    IF parts = <<>> THEN <<>>
    ELSE IF Len(parts) = 1 THEN parts[1]
    ELSE parts[1] \o sep \o Join(Tail(parts), sep)

\* html.escape(str, quote=True)
HtmlEscape(str) ==
    LET a == Replace(str, <<"&">>, <<"&", "a", "m", "p", ";">>)
        b == Replace(a, <<"<">>, <<"&", "l", "t", ";">>)
        c == Replace(b, <<">">>, <<"&", "g", "t", ";">>)
        d == Replace(c, <<"\"">>, <<"&", "q", "u", "o", "t", ";">>)
    IN  Replace(d, <<"'">>, <<"&", "#", "x", "2", "7", ";">>)

---------------------------------------------------------------------------
(* latex_to_unicode *)

\* accent code -> combining mark
_ACCENT_COMBINING ==
    <<  <<"\"", "U+0308">>,     \* diaeresis
        <<"'", "U+0301">>,      \* acute
        <<"U+0060", "U+0300">>, \* grave
        <<"^", "U+0302">>,      \* circumflex
        <<"~", "U+0303">>,      \* tilde
        <<"c", "U+0327">>,      \* cedilla
        <<"k", "U+0328">>,      \* ogonek
        <<"H", "U+030B">>,      \* double acute
        <<"r", "U+030A">>,      \* ring above
        <<"=", "U+0304">>,      \* macron
        <<".", "U+0307">>,      \* dot above
        <<"u", "U+0306">>,      \* breve
        <<"v", "U+030C">>,      \* caron
        <<"d", "U+0323">>,      \* dot below
        <<"b", "U+0331">>  >>   \* macron below

\* macro -> character, in the dict's order
_SPECIAL_MACROS ==
    <<  <<<<"\\", "s", "s">>, "U+00DF">>,  <<<<"\\", "S", "S">>, "U+1E9E">>,
        <<<<"\\", "a", "e">>, "U+00E6">>,  <<<<"\\", "A", "E">>, "U+00C6">>,
        <<<<"\\", "o", "e">>, "U+0153">>,  <<<<"\\", "O", "E">>, "U+0152">>,
        <<<<"\\", "a", "a">>, "U+00E5">>,  <<<<"\\", "A", "A">>, "U+00C5">>,
        <<<<"\\", "o">>, "U+00F8">>,       <<<<"\\", "O">>, "U+00D8">>,
        <<<<"\\", "l">>, "U+0142">>,       <<<<"\\", "L">>, "U+0141">>  >>

\* pattern -> replacement, in the list's order
_DASH_QUOTES ==
    <<  <<<<"-", "-", "-">>, "U+2014">>,        \* em dash
        <<<<"-", "-">>, "U+2013">>,             \* en dash
        <<<<"U+0060", "U+0060">>, "U+201C">>,
        <<<<"'", "'">>, "U+201D">>  >>

\* the character class of the two accent patterns
AccentCodes == { _ACCENT_COMBINING[i][1] : i \in 1..Len(_ACCENT_COMBINING) }

\* _accent_braced(m): the base letter, then the accent's combining mark
_accent_braced(accent, base) ==
    LET i == CHOOSE j \in 1..Len(_ACCENT_COMBINING) : _ACCENT_COMBINING[j][1] = accent
    IN  <<base, _ACCENT_COMBINING[i][2]>>

\* for macro, uni in table: str = str.replace(macro, uni), from entry i on
RECURSIVE ReplaceAll(_, _, _)
ReplaceAll(str, table, i) ==
    IF i > Len(table) THEN str
    ELSE ReplaceAll(Replace(str, table[i][1], <<table[i][2]>>), table, i + 1)

\* re.sub(r"\\([codes])\{([A-Za-z])\}", _accent_braced, str)
RECURSIVE SubAccentBraced(_)
SubAccentBraced(str) ==
    IF str = <<>> THEN <<>>
    ELSE IF /\ Len(str) >= 5
            /\ str[1] = "\\"
            /\ str[2] \in AccentCodes
            /\ str[3] = "{"
            /\ str[4] \in Letters
            /\ str[5] = "}"
         THEN _accent_braced(str[2], str[4]) \o SubAccentBraced(SubSeq(str, 6, Len(str)))
         ELSE <<Head(str)>> \o SubAccentBraced(Tail(str))

\* re.sub(r"\\([codes])([A-Za-z])", _accent_braced, str)
RECURSIVE SubAccentBare(_)
SubAccentBare(str) ==
    IF str = <<>> THEN <<>>
    ELSE IF /\ Len(str) >= 3
            /\ str[1] = "\\"
            /\ str[2] \in AccentCodes
            /\ str[3] \in Letters
         THEN _accent_braced(str[2], str[3]) \o SubAccentBare(SubSeq(str, 4, Len(str)))
         ELSE <<Head(str)>> \o SubAccentBare(Tail(str))

\* unicodedata.combining(c) of the combining marks NFC is modelled for
CombiningClass(c) ==
    IF c = "U+0327" THEN 202 ELSE IF c = "U+0323" THEN 220 ELSE IF c = "U+0308" THEN 230 ELSE 0

\* unicodedata: the canonical compositions of the letters a, d, e, l, o, O with the
\* marks of the accent codes ", c and d (the accent commands of the model's inputs)
NfcCompositions ==
    {   <<"a", "U+0308", "U+00E4">>, <<"a", "U+0323", "U+1EA1">>,
        <<"d", "U+0327", "U+1E11">>, <<"d", "U+0323", "U+1E0D">>,
        <<"e", "U+0308", "U+00EB">>, <<"e", "U+0327", "U+0229">>,
        <<"e", "U+0323", "U+1EB9">>, <<"l", "U+0327", "U+013C">>,
        <<"l", "U+0323", "U+1E37">>, <<"o", "U+0308", "U+00F6">>,
        <<"o", "U+0323", "U+1ECD">>, <<"O", "U+0308", "U+00D6">>,
        <<"O", "U+0323", "U+1ECC">>  }

\* canonical ordering of a run of marks: a stable sort by combining class
RECURSIVE OrderMarks(_)
OrderMarks(marks) ==
    IF Len(marks) <= 1 THEN marks
    ELSE LET rest == OrderMarks(Tail(marks))
             m == Head(marks)
             k == Cardinality({ j \in 1..Len(rest) : CombiningClass(rest[j]) < CombiningClass(m) })
         IN  SubSeq(rest, 1, k) \o <<m>> \o SubSeq(rest, k + 1, Len(rest))

\* canonical composition of a starter with its ordered marks; `kept` are the marks
\* that did not compose, which block a later mark of no higher class
RECURSIVE ComposeRun(_, _, _)
ComposeRun(starter, kept, marks) ==
    IF marks = <<>> THEN <<starter>> \o kept
    ELSE LET m == Head(marks)
             blocked == kept # <<>> /\ CombiningClass(kept[Len(kept)]) >= CombiningClass(m)
             hit == { c \in NfcCompositions : c[1] = starter /\ c[2] = m }
         IN  IF ~blocked /\ hit # {}
             THEN ComposeRun((CHOOSE c \in hit : TRUE)[3], kept, Tail(marks))
             ELSE ComposeRun(starter, kept \o <<m>>, Tail(marks))

\* the length of the run of combining marks str starts with
RECURSIVE MarkRun(_)
MarkRun(str) ==
    IF str # <<>> /\ CombiningClass(Head(str)) # 0 THEN 1 + MarkRun(Tail(str)) ELSE 0

\* unicodedata.normalize('NFC', str)
RECURSIVE NFC(_)
NFC(str) ==
    IF str = <<>> THEN <<>>
    ELSE IF CombiningClass(Head(str)) # 0 THEN <<Head(str)>> \o NFC(Tail(str))
    ELSE LET n == MarkRun(Tail(str))
         IN  ComposeRun(Head(str), <<>>, OrderMarks(SubSeq(str, 2, n + 1)))
                 \o NFC(SubSeq(str, n + 2, Len(str)))

latex_to_unicode(txt) ==
    IF ~Truthy(txt) THEN txt
    ELSE LET s1 == ReplaceAll(txt, _SPECIAL_MACROS, 1)
             s2 == SubAccentBraced(s1)
             s3 == SubAccentBare(s2)
             s4 == Replace(Replace(s3, <<"{">>, <<>>), <<"}">>, <<>>)
             s5 == ReplaceAll(s4, _DASH_QUOTES, 1)
         IN  NFC(s5)

---------------------------------------------------------------------------
(* format_authors *)

NoAuthor ==
    <<"N", "o", " ", "a", "u", "t", "h", "o", "r", " ", "s", "p", "e", "c", "i", "f", "i", "e", "d">>

\* the length of the run of whitespace str starts with
RECURSIVE SpaceRun(_)
SpaceRun(str) ==
    IF str # <<>> /\ Head(str) \in Whitespace THEN 1 + SpaceRun(Tail(str)) ELSE 0

\* SeparatorAt with the pattern r"\s*and\s*": a split inside a word
SeparatorAt_InsideWords(str) ==
    LET w1 == SpaceRun(str)
        w2 == SpaceRun(SubSeq(str, w1 + 4, Len(str)))
    IN  IF /\ Len(str) >= w1 + 3
           /\ Lower(SubSeq(str, w1 + 1, w1 + 3)) = <<"a", "n", "d">>
        THEN w1 + 3 + w2
        ELSE 0

\* the length of the match of r"\s+and\s+" (re.IGNORECASE) at the start of str; 0: none
SeparatorAt(str) ==
    LET w1 == SpaceRun(str)
        w2 == SpaceRun(SubSeq(str, w1 + 4, Len(str)))
    IN  IF /\ w1 >= 1
           /\ Len(str) >= w1 + 4
           /\ Lower(SubSeq(str, w1 + 1, w1 + 3)) = <<"a", "n", "d">>
           /\ w2 >= 1
        THEN w1 + 3 + w2
        ELSE 0

\* re.split(r"\s+and\s+", str, flags=re.IGNORECASE); `cur` is the part being read
RECURSIVE ReSplitAnd(_, _)
ReSplitAnd(str, cur) ==
    IF str = <<>> THEN <<cur>>
    ELSE IF SeparatorAt(str) > 0
         THEN <<cur>> \o ReSplitAnd(SubSeq(str, SeparatorAt(str) + 1, Len(str)), <<>>)
         ELSE ReSplitAnd(Tail(str), cur \o <<Head(str)>>)

\* re.sub(r"\s+", " ", str)
RECURSIVE CollapseSpace(_)
CollapseSpace(str) ==
    IF str = <<>> THEN <<>>
    ELSE IF Head(str) \in Whitespace
         THEN <<" ">> \o CollapseSpace(SubSeq(str, SpaceRun(str) + 1, Len(str)))
         ELSE <<Head(str)>> \o CollapseSpace(Tail(str))

\* 'Last, First' to 'First Last': the split is at the first comma
ReorderName(p) ==
    IF \E i \in 1..Len(p) : p[i] = ","
    THEN LET i == CHOOSE j \in 1..Len(p) : p[j] = "," /\ \A k \in 1..(j - 1) : p[k] # ","
             left == Strip(SubSeq(p, 1, i - 1), Whitespace)
             right == Strip(SubSeq(p, i + 1, Len(p)), Whitespace)
         IN  IF left # <<>> /\ right # <<>> THEN right \o <<" ">> \o left ELSE p
    ELSE p

\* the body of `for p in parts`, for a p that is not empty once stripped
NormalizeName(p) ==
    ReorderName(Strip(CollapseSpace(latex_to_unicode(p)), Whitespace))

\* the parts the author string is split into
AuthorParts(raw) == ReSplitAnd(Strip(raw, Whitespace), <<>>)

\* norm_parts at the end of `for p in parts`
RECURSIVE NormParts(_)
NormParts(parts) ==
    IF parts = <<>> THEN <<>>
    ELSE LET p == Strip(Head(parts), Whitespace)
         IN  IF p = <<>> THEN NormParts(Tail(parts))
             ELSE <<NormalizeName(p)>> \o NormParts(Tail(parts))

format_authors(raw) ==
    IF ~Truthy(raw) THEN NoAuthor
    ELSE LET names == NormParts(AuthorParts(raw))
         IN  IF names # <<>>
             THEN Join([i \in 1..Len(names) |-> HtmlEscape(names[i])], <<",", " ">>)
             ELSE NoAuthor

---------------------------------------------------------------------------
(* main: grouping, sorting and numbering *)

Undated == <<"U", "n", "d", "a", "t", "e", "d">>

NoTitle ==
    <<"N", "o", " ", "t", "i", "t", "l", "e", " ", "s", "p", "e", "c", "i", "f", "i", "e", "d">>

\* the template file's text, as the pieces around the placeholder
PLACEHOLDER == "PLACEHOLDER"

TemplateFile == <<"<header>", PLACEHOLDER, "<footer>">>

\* digits with single underscores between them, as int() accepts them
IsDigitString(str) ==
    /\ str # <<>>
    /\ str[1] \in Digits
    /\ str[Len(str)] \in Digits
    /\ \A i \in 1..Len(str) : str[i] \in Digits \cup {"_"}
    /\ \A i \in 1..(Len(str) - 1) : ~(str[i] = "_" /\ str[i + 1] = "_")

\* the value of a digit string
RECURSIVE DigitsValue(_)
DigitsValue(str) ==
    IF str = <<>> THEN 0
    ELSE IF str[Len(str)] = "_" THEN DigitsValue(SubSeq(str, 1, Len(str) - 1))
    ELSE 10 * DigitsValue(SubSeq(str, 1, Len(str) - 1)) + (CodePoint(str[Len(str)]) - 48)

\* whether int(y) returns: y, stripped, is an optional sign and a digit string
IntParses(y) ==
    LET str == Strip(y, Whitespace)
    IN  \/ IsDigitString(str)
        \/ str # <<>> /\ Head(str) \in {"+", "-"} /\ IsDigitString(Tail(str))

\* int(y), when it returns
IntOf(y) ==
    LET str == Strip(y, Whitespace)
    IN  IF Head(str) = "-" THEN 0 - DigitsValue(Tail(str))
        ELSE IF Head(str) = "+" THEN DigitsValue(Tail(str))
        ELSE DigitsValue(str)

\* _year_sort_key without the minus sign: numeric years ascending
_year_sort_key_Ascending(y) == IF IntParses(y) THEN <<0, IntOf(y)>> ELSE <<1, y>>

\* numeric years first, descending; the others after
_year_sort_key(y) == IF IntParses(y) THEN <<0, 0 - IntOf(y)>> ELSE <<1, y>>

\* a < b on the tuples _year_sort_key returns
YearKeyLess(a, b) ==
    \/ a[1] < b[1]
    \/ a[1] = b[1] /\ a[1] = 0 /\ a[2] < b[2]
    \/ a[1] = b[1] /\ a[1] = 1 /\ StrLess(a[2], b[2])

YearLess(a, b) == YearKeyLess(_year_sort_key(a), _year_sort_key(b))

\* AuthorLess with the fallback text of the rendering as the key of a missing author
AuthorLess_FallbackKey(a, b) == StrLess(Get(a, "author", NoAuthor), Get(b, "author", NoAuthor))

\* the key of the sort of a group: x.get('author', '')
AuthorLess(a, b) == StrLess(Get(a, "author", <<>>), Get(b, "author", <<>>))

\* sorted(keys, key=_year_sort_key): a stable sort, by insertion of the last key
RECURSIVE SortedYears(_)
SortedYears(keys) ==
    IF keys = <<>> THEN <<>>
    ELSE LET front == SortedYears(SubSeq(keys, 1, Len(keys) - 1))
             x == keys[Len(keys)]
             k == Cardinality({ i \in 1..Len(front) : ~YearLess(x, front[i]) })
         IN  SubSeq(front, 1, k) \o <<x>> \o SubSeq(front, k + 1, Len(front))

\* sorted(papers, key=lambda x: x.get('author', '')): a stable sort
RECURSIVE SortedPapers(_)
SortedPapers(papers) ==
    IF papers = <<>> THEN <<>>
    ELSE LET front == SortedPapers(SubSeq(papers, 1, Len(papers) - 1))
             x == papers[Len(papers)]
             k == Cardinality({ i \in 1..Len(front) : ~AuthorLess(x, front[i]) })
         IN  SubSeq(front, 1, k) \o <<x>> \o SubSeq(front, k + 1, Len(front))

\* AppendToGroup with grouped_by_year[key] = [entry]: the group is overwritten
AppendToGroup_Overwrites(groups, key, entry) ==
    IF \E i \in 1..Len(groups) : groups[i].year = key
    THEN [i \in 1..Len(groups) |->
            IF groups[i].year = key
            THEN [groups[i] EXCEPT !.papers = <<entry>>]
            ELSE groups[i]]
    ELSE Append(groups, [year |-> key, papers |-> <<entry>>])

\* grouped_by_year[key].append(entry), on the dict's items in insertion order
AppendToGroup(groups, key, entry) ==
    IF \E i \in 1..Len(groups) : groups[i].year = key
    THEN [i \in 1..Len(groups) |->
            IF groups[i].year = key
            THEN [groups[i] EXCEPT !.papers = Append(@, entry)]
            ELSE groups[i]]
    ELSE Append(groups, [year |-> key, papers |-> <<entry>>])

\* for entry in bib_database.entries: group by the year field
RECURSIVE GroupByYear(_)
GroupByYear(recs) ==
    IF recs = <<>> THEN <<>>
    ELSE LET entry == recs[Len(recs)]
         IN  AppendToGroup(GroupByYear(SubSeq(recs, 1, Len(recs) - 1)),
                           Get(entry, "year", Undated), entry)

\* grouped_by_year[year]
GroupOf(groups, year) == (CHOOSE i \in 1..Len(groups) : groups[i].year = year)

\* sum(len(v) for v in grouped_by_year.values())
RECURSIVE TotalPubs(_)
TotalPubs(groups) ==
    IF groups = <<>> THEN 0 ELSE Len(Head(groups).papers) + TotalPubs(Tail(groups))

---------------------------------------------------------------------------
(* main: rendering one entry *)

DoiOrg == <<"h", "t", "t", "p", "s", ":", "/", "/", "d", "o", "i", ".", "o", "r", "g", "/">>

\* link_url: the url field, overridden by a doi
LinkUrl(entry) ==
    LET url == IF Truthy(Get(entry, "url", None)) THEN entry["url"] ELSE None
        doi == Get(entry, "doi", None)
    IN  IF Truthy(doi)
        THEN IF ~StartsWith(Lower(doi), <<"h", "t", "t", "p">>)
             THEN DoiOrg \o doi
             ELSE doi
        ELSE url

\* venue before the year is taken out: journal, else booktitle, normalized, else
\* an arXiv identifier
VenueName(entry) ==
    LET venue_raw == IF Truthy(Get(entry, "journal", None)) THEN entry["journal"]
                     ELSE IF Truthy(Get(entry, "booktitle", None)) THEN entry["booktitle"]
                     ELSE <<>>
        venue == latex_to_unicode(venue_raw)
    IN  IF ~Truthy(venue) /\ Lower(Get(entry, "archivePrefix", <<>>)) = <<"a", "r", "x", "i", "v">>
        THEN <<"a", "r", "X", "i", "v", ":">> \o Str(Get(entry, "eprint", None))
        ELSE venue

\* venue: the year taken out of the name and its ends stripped, then escaped
Venue(entry) ==
    LET entry_year == Get(entry, "year", <<>>)
        venue == VenueName(entry)
    IN  HtmlEscape(IF Truthy(venue) /\ Truthy(entry_year)
                   THEN Strip(Replace(venue, entry_year, <<>>), {" ", ",", "."})
                   ELSE venue)

\* the <li> line of an entry: the values its f-string embeds.  href is None for a
\* <span> title; `entry` is the record the line was rendered from
RenderEntry(entry) ==
    LET link_url == LinkUrl(entry)
    IN  [ tag     |-> "li",
          href    |-> IF Truthy(link_url) THEN HtmlEscape(link_url) ELSE None,
          title   |-> HtmlEscape(latex_to_unicode(Get(entry, "title", NoTitle))),
          authors |-> format_authors(Get(entry, "author", NoAuthor)),
          venue   |-> Venue(entry),
          entry   |-> entry ]

---------------------------------------------------------------------------
(* Inputs of the bounded checks *)

\* all strs over `chars` of length at most n
StringsUpTo(chars, n) == UNION { [1..k -> chars] : k \in 0..n }

MaxTextLen == 4

TextChars == {"\\", "o", "e", "l", "d", "{", "}"}

\* every macro of the table, and texts with accents, braces, dashes and quotes
TextExamples ==
    { _SPECIAL_MACROS[i][1] : i \in 1..Len(_SPECIAL_MACROS) } \cup
    {   <<"\\", "l", "d", "o", "t", "s">>,
        <<"\\", "L", "a", "T", "e", "X">>,
        <<"\\", "o", "m", "e", "g", "a">>,
        <<"\\", "o", " ", "e">>,
        <<"{", "\\", "o", "}", "e">>,
        <<"\\", "\"", "{", "O", "}">>,
        <<"\\", "\"", "O">>,
        <<"S", "c", "h", "r", "\\", "\"", "o", "d", "i", "n", "g", "e", "r">>,
        <<"\\", "c", "\\", "\"", "{", "o", "}">>,
        <<"\\", "d", "\\", "d", "{", "o", "}">>,
        <<"\\", "\"", "\\", "c", "{", "e", "}">>,
        <<"\\", "x", "{", "o", "}">>,
        <<"a", "-", "-", "-", "b", "-", "-", "c", "-", "-", "-", "-">>,
        <<"U+0060", "U+0060", "{", "A", "}", "'", "'", "'">>  }

TextInputs == StringsUpTo(TextChars, MaxTextLen) \cup TextExamples

MaxTokens == 5

\* the pieces author strings are built of: a letter, a space, the word, the word
\* between spaces
AuthorTokens == { <<"x">>, <<" ">>, <<"a", "n", "d">>, <<" ", "a", "n", "d", " ">> }

\* the concatenations of at most n tokens
RECURSIVE TokenStrings(_)
TokenStrings(n) ==
    IF n = 0 THEN { <<>> }
    ELSE TokenStrings(n - 1) \cup
         { str \o tk : str \in TokenStrings(n - 1), tk \in AuthorTokens }

AuthorExamples ==
    {   <<"J", ".", " ", "D", "o", "e", " ", "a", "n", "d", " ", "K", ".", " ",
          "A", "n", "d", "e", "r", "s", "o", "n">>,
        <<"D", "o", "e", ",", " ", "J", ".", "\n", "A", "N", "D", "\t", " ",
          "L", "e", "e", ",", " ", "K", ".", ",", " ", "J", "r">>,
        <<" ", "S", "m", "i", "t", "h", ",", " ", " ", "J", "o", "h", "n", " ">>,
        <<"{", "}", " ", "a", "n", "d", " ", "B", "<", "&", ">">>,
        <<"D", "o", "e", ",", " ", "a", "n", "d", " ", ",", "x">>,
        <<"M", "\\", "\"", "{", "o", "}", "l", "l", "e", "r", " ", "A", "n", "d", " ",
          "O", "'", "N", "e", "i", "l">>  }

AuthorInputs == TokenStrings(MaxTokens) \cup AuthorExamples

\* "2023"
Year2023 ==
    <<"2", "0", "2", "3">>

\* "2022"
Year2022 ==
    <<"2", "0", "2", "2">>

\* "02023"
Year02023 ==
    <<"0", "2", "0", "2", "3">>

\* "-5"
YearMinus5 ==
    <<"-", "5">>

\* "1e3"
Year1e3 ==
    <<"1", "e", "3">>

\* "in press"
YearInPress ==
    <<"i", "n", " ", "p", "r", "e", "s", "s">>

\* "<b>"
YearMarkup ==
    <<"<", "b", ">">>

\* "Lee, K."
AuthorLee ==
    <<"L", "e", "e", ",", " ", "K", ".">>

\* "de Wit, B. and Lee, K."
AuthorDeWit ==
    <<"d", "e", " ", "W", "i", "t", ",", " ", "B", ".", " ", "a", "n", "d", " ", "L",
      "e", "e", ",", " ", "K", ".">>

\* "O'Hara, <b> and A&B"
AuthorMarkup ==
    <<"O", "'", "H", "a", "r", "a", ",", " ", "<", "b", ">", " ", "a", "n", "d", " ",
      "A", "&", "B">>

\* "A <i>{T}itle</i>"
TitleMarkup ==
    <<"A", " ", "<", "i", ">", "{", "T", "}", "i", "t", "l", "e", "<", "/", "i", ">">>

\* "http://e.org/?a=1&b=2"
UrlExample ==
    <<"h", "t", "t", "p", ":", "/", "/", "e", ".", "o", "r", "g", "/", "?", "a", "=",
      "1", "&", "b", "=", "2">>

\* "10.1/x"
DoiBare ==
    <<"1", "0", ".", "1", "/", "x">>

\* "http://d.org/1"
DoiHttp ==
    <<"h", "t", "t", "p", ":", "/", "/", "d", ".", "o", "r", "g", "/", "1">>

\* "HTTPS://d.org/1"
DoiHttpsUpper ==
    <<"H", "T", "T", "P", "S", ":", "/", "/", "d", ".", "o", "r", "g", "/", "1">>

\* "httpbin/7"
DoiHttpWord ==
    <<"h", "t", "t", "p", "b", "i", "n", "/", "7">>

\* "Proc. of X 2023"
JournalWithYear ==
    <<"P", "r", "o", "c", ".", " ", "o", "f", " ", "X", " ", "2", "0", "2", "3">>

\* "Phys. Rev."
JournalAbbrev ==
    <<"P", "h", "y", "s", ".", " ", "R", "e", "v", ".">>

\* "J. <2023>, A&B"
JournalMarkup ==
    <<"J", ".", " ", "<", "2", "0", "2", "3", ">", ",", " ", "A", "&", "B">>

\* "Proc. Y, 2023."
BooktitleWithYear ==
    <<"P", "r", "o", "c", ".", " ", "Y", ",", " ", "2", "0", "2", "3", ".">>

\* "arXiv"
ArxivPrefix ==
    <<"a", "r", "X", "i", "v">>

\* "2301.1"
EprintId ==
    <<"2", "3", "0", "1", ".", "1">>


\* a record with the fields of f whose value is not None
MakeEntry(f) == [k \in { k \in DOMAIN f : f[k] # None } |-> f[k]]

MaxEntries == 3

\* records of a bibliography file: a year or none, authors or none
FileRecords ==
    { MakeEntry([year |-> y, author |-> a]) :
        y \in {None, Year2023, Year2022},
        a \in {None, AuthorLee, AuthorDeWit} }

\* the sequences of at most n records of the file
FileEntries(n) == UNION { [1..k -> FileRecords] : k \in 0..n }

MaxYears == 3

\* records that differ in their year only: numeric years, two spellings of one
\* number, a negative number, labels that are no number, and no year
YearRecords ==
    { MakeEntry([year |-> y, title |-> TitleMarkup]) :
        y \in {None, Year2023, Year2022, Year02023, YearMinus5, YearInPress, Year1e3} }

\* the sequences of at most n records with different years
YearEntries(n) ==
    UNION { { e \in [1..k -> YearRecords] : \A i, j \in 1..k : i # j => e[i] # e[j] } :
            k \in 0..n }

\* records with link and venue fields, present, empty or absent
LinkRecords ==
    { MakeEntry([year |-> y, author |-> AuthorMarkup, title |-> ti, url |-> u, doi |-> d,
                 journal |-> j, booktitle |-> b, archivePrefix |-> ax[1], eprint |-> ax[2]]) :
        y \in {None, Year2023, YearMarkup},
        ti \in {None, TitleMarkup},
        u \in {None, <<>>, UrlExample},
        d \in {None, <<>>, DoiBare, DoiHttp, DoiHttpsUpper, DoiHttpWord},
        j \in {None, <<>>, JournalWithYear, JournalAbbrev, JournalMarkup},
        b \in {None, BooktitleWithYear},
        ax \in {<<None, None>>, <<ArxivPrefix, None>>, <<ArxivPrefix, EprintId>>} }

---------------------------------------------------------------------------
(* The state of what is not running *)

IdleMain ==
    /\ entries = <<>>
    /\ grouped_by_year = <<>>
    /\ sorted_years = <<>>
    /\ html_lines = <<>>
    /\ current_number = 0
    /\ year_idx = 0
    /\ papers_in_year = <<>>
    /\ entry_idx = 0
    /\ outfile = [state |-> "old", content |-> <<>>]
    /\ message = "none"

IdleText == text = None /\ s = None

IdleAuthors == authors_raw = None /\ norm_parts = <<>> /\ authors = None

---------------------------------------------------------------------------
(* main() *)

\* OUTPUT_FILE before the run: `state` is "old", "truncated" (opened for writing),
\* "partial" (a write that failed midway) or "written"
OldFile == [state |-> "old", content |-> <<>>]

Init ==
    /\ pc = "read_bib"
    /\ entries \in FileEntries(MaxEntries) \cup YearEntries(MaxYears)
                     \cup { <<r>> : r \in LinkRecords }
    /\ grouped_by_year = <<>>
    /\ sorted_years = <<>>
    /\ html_lines = <<>>
    /\ current_number = 0
    /\ year_idx = 0
    /\ papers_in_year = <<>>
    /\ entry_idx = 0
    /\ outfile = OldFile
    /\ message = "none"
    /\ IdleText
    /\ IdleAuthors

\* open(BIBTEX_FILE) and bibtexparser.load return
ReadBib ==
    /\ pc = "read_bib"
    /\ pc' = "group"
    /\ UNCHANGED <<mainVars, textVars, authorVars>>

\* open(BIBTEX_FILE) or bibtexparser.load raises
ReadBibFails ==
    /\ pc = "read_bib"
    /\ pc' = "except"
    /\ UNCHANGED <<mainVars, textVars, authorVars>>

\* for entry in bib_database.entries: grouped_by_year[...].append(entry)
GroupEntries ==
    /\ pc = "group"
    /\ grouped_by_year' = GroupByYear(entries)
    /\ pc' = "sort"
    /\ UNCHANGED <<entries, sorted_years, html_lines, current_number, year_idx,
                   papers_in_year, entry_idx, outfile, message, textVars, authorVars>>

\* sorted_years, html_lines = [], total_pubs and current_number
SortYears ==
    /\ pc = "sort"
    /\ sorted_years' = SortedYears([i \in 1..Len(grouped_by_year) |-> grouped_by_year[i].year])
    /\ html_lines' = <<>>
    /\ current_number' = TotalPubs(grouped_by_year)
    /\ year_idx' = 1
    /\ pc' = "year_loop"
    /\ UNCHANGED <<entries, grouped_by_year, papers_in_year, entry_idx, outfile, message,
                   textVars, authorVars>>

\* for year in sorted_years: the heading, the opening of the list, the sorted group
BeginYear ==
    /\ pc = "year_loop"
    /\ year_idx <= Len(sorted_years)
    /\ LET year == sorted_years[year_idx]
       IN  /\ html_lines' = html_lines \o
                  << [tag |-> "h3", year |-> year],
                     [tag |-> "ol", start |-> current_number] >>
           /\ papers_in_year' = SortedPapers(grouped_by_year[GroupOf(grouped_by_year, year)].papers)
    /\ entry_idx' = 1
    /\ pc' = "entry_loop"
    /\ UNCHANGED <<entries, grouped_by_year, sorted_years, current_number, year_idx,
                   outfile, message, textVars, authorVars>>

\* for entry in papers_in_year: the <li> line
RenderNextEntry ==
    /\ pc = "entry_loop"
    /\ entry_idx <= Len(papers_in_year)
    /\ html_lines' = Append(html_lines, RenderEntry(papers_in_year[entry_idx]))
    /\ entry_idx' = entry_idx + 1
    /\ UNCHANGED <<pc, entries, grouped_by_year, sorted_years, current_number, year_idx,
                   papers_in_year, outfile, message, textVars, authorVars>>

\* EndYear with current_number -= 1: the counter goes down by one per group
EndYear_CountsGroups ==
    /\ pc = "entry_loop"
    /\ entry_idx > Len(papers_in_year)
    /\ html_lines' = Append(html_lines, [tag |-> "/ol"])
    /\ current_number' = current_number - 1
    /\ year_idx' = year_idx + 1
    /\ pc' = "year_loop"
    /\ UNCHANGED <<entries, grouped_by_year, sorted_years, papers_in_year, entry_idx,
                   outfile, message, textVars, authorVars>>

\* the end of the group: </ol>, and the counter goes down by the group's size
EndYear ==
    /\ pc = "entry_loop"
    /\ entry_idx > Len(papers_in_year)
    /\ html_lines' = Append(html_lines, [tag |-> "/ol"])
    /\ current_number' = current_number - Len(papers_in_year)
    /\ year_idx' = year_idx + 1
    /\ pc' = "year_loop"
    /\ UNCHANGED <<entries, grouped_by_year, sorted_years, papers_in_year, entry_idx,
                   outfile, message, textVars, authorVars>>

\* the end of `for year in sorted_years`; open(TEMPLATE_FILE) and f.read() return
ReadTemplate ==
    /\ pc = "year_loop"
    /\ year_idx > Len(sorted_years)
    /\ pc' = "open_output"
    /\ UNCHANGED <<mainVars, textVars, authorVars>>

\* open(TEMPLATE_FILE) or f.read() raises
ReadTemplateFails ==
    /\ pc = "year_loop"
    /\ year_idx > Len(sorted_years)
    /\ pc' = "except"
    /\ UNCHANGED <<mainVars, textVars, authorVars>>

\* open(OUTPUT_FILE, 'w') returns: the file is truncated
OpenOutput ==
    /\ pc = "open_output"
    /\ outfile' = [state |-> "truncated", content |-> <<>>]
    /\ pc' = "write_output"
    /\ UNCHANGED <<entries, grouped_by_year, sorted_years, html_lines, current_number,
                   year_idx, papers_in_year, entry_idx, message, textVars, authorVars>>

\* open(OUTPUT_FILE, 'w') raises: the file is as it was
OpenOutputFails ==
    /\ pc = "open_output"
    /\ pc' = "except"
    /\ UNCHANGED <<mainVars, textVars, authorVars>>

\* output_html = template_html.replace(PLACEHOLDER, generated_content)
OutputHtml ==
    [i \in 1..Len(TemplateFile) |->
        IF TemplateFile[i] = PLACEHOLDER
        THEN [piece |-> "generated", lines |-> html_lines]
        ELSE [piece |-> TemplateFile[i], lines |-> <<>>]]

\* f.write(output_html) and the close return; the success message
WriteOutput ==
    /\ pc = "write_output"
    /\ outfile' = [state |-> "written", content |-> OutputHtml]
    /\ message' = "success"
    /\ pc' = "done"
    /\ UNCHANGED <<entries, grouped_by_year, sorted_years, html_lines, current_number,
                   year_idx, papers_in_year, entry_idx, textVars, authorVars>>

\* f.write(output_html) or the close raises: the file stays truncated, or holds the
\* part of the text that reached it
WriteOutputFails ==
    /\ pc = "write_output"
    /\ \E state \in {"truncated", "partial"} :
           outfile' = [state |-> state, content |-> <<>>]
    /\ pc' = "except"
    /\ UNCHANGED <<entries, grouped_by_year, sorted_years, html_lines, current_number,
                   year_idx, papers_in_year, entry_idx, message, textVars, authorVars>>

\* except Exception as e: the failure message
Except ==
    /\ pc = "except"
    /\ message' = "failure"
    /\ pc' = "done"
    /\ UNCHANGED <<entries, grouped_by_year, sorted_years, html_lines, current_number,
                   year_idx, papers_in_year, entry_idx, outfile, textVars, authorVars>>

Next ==
    \/ ReadBib
    \/ ReadBibFails
    \/ GroupEntries
    \/ SortYears
    \/ BeginYear
    \/ RenderNextEntry
    \/ EndYear
    \/ ReadTemplate
    \/ ReadTemplateFails
    \/ OpenOutput
    \/ OpenOutputFails
    \/ WriteOutput
    \/ WriteOutputFails
    \/ Except

Spec == Init /\ [][Next]_vars

---------------------------------------------------------------------------
(* latex_to_unicode(text), called on each input *)

InitText ==
    /\ pc = "latex_to_unicode"
    /\ text \in TextInputs
    /\ s = None
    /\ IdleMain
    /\ IdleAuthors

CallLatexToUnicode ==
    /\ pc = "latex_to_unicode"
    /\ s' = latex_to_unicode(text)
    /\ pc' = "returned"
    /\ UNCHANGED <<text, mainVars, authorVars>>

NextText == CallLatexToUnicode

SpecText == InitText /\ [][NextText]_vars

---------------------------------------------------------------------------
(* format_authors(authors_raw), called on each input *)

InitAuthors ==
    /\ pc = "format_authors"
    /\ authors_raw \in AuthorInputs
    /\ norm_parts = <<>>
    /\ authors = None
    /\ IdleMain
    /\ IdleText

CallFormatAuthors ==
    /\ pc = "format_authors"
    /\ norm_parts' = IF Truthy(authors_raw) THEN NormParts(AuthorParts(authors_raw)) ELSE <<>>
    /\ authors' = format_authors(authors_raw)
    /\ pc' = "returned"
    /\ UNCHANGED <<authors_raw, mainVars, textVars>>

NextAuthors == CallFormatAuthors

SpecAuthors == InitAuthors /\ [][NextAuthors]_vars

---------------------------------------------------------------------------
(* Claims about main() *)

\* the lines of html_lines with a tag
LinesTagged(tag) == { i \in 1..Len(html_lines) : html_lines[i].tag = tag }

\* the line that opens the list line i is in
ListOf(i) == CHOOSE j \in LinesTagged("ol") : j < i /\ \A k \in LinesTagged("ol") : k < i => k <= j

\* the heading of the group line i is in
HeadingOf(i) == CHOOSE j \in LinesTagged("h3") : j < i /\ \A k \in LinesTagged("h3") : k < i => k <= j

\* the number a reversed list gives its item at line i: the list's start for its
\* first item, one less for each item after
ItemNumber(i) == html_lines[ListOf(i)].start - (i - ListOf(i) - 1)

\* the loop over the groups has ended, and nothing failed before
Rendered ==
    \/ pc = "year_loop" /\ year_idx > Len(sorted_years)
    \/ pc \in {"open_output", "write_output"}
    \/ pc = "done" /\ message = "success"

\* how many times x occurs in seq
Count(seq, x) == Cardinality({ i \in 1..Len(seq) : seq[i] = x })

\* C1: the list numbers cover 1..total exactly once, in descending order along the
\* document (the k-th item of the document has number total - k + 1, and after the
\* last group there are total items); the running counter never drops below 0 and
\* every list's start is at least the size of its group.
C1_Numbering ==
    /\ current_number >= 0
    /\ \A i \in LinesTagged("li") :
           ItemNumber(i) = Len(entries) - Cardinality({ j \in LinesTagged("li") : j < i })
    /\ \A j \in LinesTagged("ol") :
           html_lines[j].start >=
               Len(grouped_by_year[GroupOf(grouped_by_year, html_lines[j - 1].year)].papers)
    /\ Rendered =>
           /\ { ItemNumber(i) : i \in LinesTagged("li") } = 1..Len(entries)
           /\ Cardinality(LinesTagged("li")) = Len(entries)
           /\ current_number = 0

\* three records, two of 2023 and one of 2022: lists starting at 3 and at 1
C1_Witness ==
    /\ Rendered
    /\ Len(entries) = 3
    /\ Len(sorted_years) = 2
    /\ html_lines[2] = [tag |-> "ol", start |-> 3]
    /\ html_lines[7] = [tag |-> "ol", start |-> 1]
    /\ { ItemNumber(i) : i \in LinesTagged("li") } = {1, 2, 3}

\* the years of the groups that are numbers
Numeric(y) == IntParses(y)

\* C2 as claimed: numeric keys first, in strictly descending numeric value, then the
\* non-numeric keys in ascending order; no non-numeric key before a numeric one.
C2_StrictlyDescending ==
    \A i, j \in 1..Len(sorted_years) :
        i < j =>
            /\ Numeric(sorted_years[j]) => Numeric(sorted_years[i])
            /\ (Numeric(sorted_years[i]) /\ Numeric(sorted_years[j])) =>
                   IntOf(sorted_years[i]) > IntOf(sorted_years[j])
            /\ (~Numeric(sorted_years[i]) /\ ~Numeric(sorted_years[j])) =>
                   StrLess(sorted_years[i], sorted_years[j])

\* the position of a key among the dict's keys
KeyPosition(y) == GroupOf(grouped_by_year, y)

\* C2: the emitted order is a permutation of the group keys with the numeric keys
\* first, in descending numeric value where keys that spell the same number keep
\* their order of first appearance, then the non-numeric keys in ascending code
\* point order; no non-numeric key precedes a numeric key.
C2_YearOrder ==
    pc \notin {"read_bib", "group", "sort"} =>
        /\ Len(sorted_years) = Len(grouped_by_year)
        /\ \A g \in 1..Len(grouped_by_year) : Count(sorted_years, grouped_by_year[g].year) = 1
        /\ \A i, j \in 1..Len(sorted_years) :
               i < j =>
                   /\ Numeric(sorted_years[j]) => Numeric(sorted_years[i])
                   /\ (Numeric(sorted_years[i]) /\ Numeric(sorted_years[j])) =>
                          \/ IntOf(sorted_years[i]) > IntOf(sorted_years[j])
                          \/ /\ IntOf(sorted_years[i]) = IntOf(sorted_years[j])
                             /\ KeyPosition(sorted_years[i]) < KeyPosition(sorted_years[j])
                   /\ (~Numeric(sorted_years[i]) /\ ~Numeric(sorted_years[j])) =>
                          StrLess(sorted_years[i], sorted_years[j])

\* a numeric key that appeared last sorted first, two spellings of one number, and
\* a label after them
C2_Witness ==
    /\ pc = "year_loop"
    /\ [i \in 1..Len(grouped_by_year) |-> grouped_by_year[i].year] = <<YearInPress, Year02023, Year2023>>
    /\ sorted_years = <<Year02023, Year2023, YearInPress>>

\* the doi begins with "http://" or "https://", in any letter case
HasHttpScheme(doi) ==
    \/ StartsWith(Lower(doi), <<"h", "t", "t", "p", ":", "/", "/">>)
    \/ StartsWith(Lower(doi), <<"h", "t", "t", "p", "s", ":", "/", "/">>)

\* the link the claim gives a record
ClaimedLink(entry) ==
    LET doi == Get(entry, "doi", None)
        url == Get(entry, "url", None)
    IN  IF Truthy(doi)
        THEN IF HasHttpScheme(doi) THEN doi ELSE DoiOrg \o doi
        ELSE IF Truthy(url) THEN url ELSE None

\* C3: a non-empty doi overrides the url; it is the link verbatim only if it begins
\* with an HTTP(S) scheme, and otherwise the link is https://doi.org/<doi>; with no
\* doi the url is the link; with neither there is no link and the title is a span.
C3_LinkResolution ==
    \A i \in LinesTagged("li") :
        html_lines[i].href =
            IF ClaimedLink(html_lines[i].entry) = None THEN None
            ELSE HtmlEscape(ClaimedLink(html_lines[i].entry))

\* C4: a failure in any stage is caught and reported, and a failed run leaves the
\* output file as it was; the file is touched only after every record has been
\* rendered and the template read.
C4_FailedRunLeavesOutput ==
    /\ pc = "done" => message \in {"success", "failure"}
    /\ message = "failure" => outfile = OldFile
    /\ outfile # OldFile =>
           /\ pc \in {"write_output", "except", "done"}
           /\ year_idx > Len(sorted_years)
           /\ Cardinality(LinesTagged("li")) = Len(entries)

\* the list items rendered from a record
ItemsOf(e) == { i \in LinesTagged("li") : html_lines[i].entry = e }

\* the fields whose absence the claim is about
OptionalFields == {"author", "title", "journal", "booktitle", "url", "doi"}

ClaimedVenue(entry) ==
    LET year == Get(entry, "year", <<>>)
        venue == VenueName(entry)
    IN  IF Truthy(year) /\ Contains(venue, year)
        THEN Strip(Replace(venue, year, <<>>), {" ", ",", "."})
        ELSE venue

\* C6: when the year is known and the venue contains it, the year is removed and the
\* spaces, commas and periods at the ends are stripped; a venue that does not contain
\* the year is not altered.
C6_VenueYearStripping ==
    \A i \in LinesTagged("li") :
        html_lines[i].venue = HtmlEscape(ClaimedVenue(html_lines[i].entry))

\* the raw author field, '' when missing
RawAuthor(e) == Get(e, "author", <<>>)

\* the records of the input with a year key
RecordsOfYear(y) == { k \in 1..Len(entries) : Get(entries[k], "year", Undated) = y }

\* C9: within a group the items are in ascending order of the raw author field, a
\* missing one comparing as '', and once the group is rendered they are a permutation
\* of the group's input records.
C9_GroupOrder ==
    /\ \A i, j \in LinesTagged("li") :
           (i < j /\ ListOf(i) = ListOf(j)) =>
               ~StrLess(RawAuthor(html_lines[j].entry), RawAuthor(html_lines[i].entry))
    /\ \A c \in LinesTagged("/ol") :
           LET y == html_lines[HeadingOf(c)].year
               items == { i \in LinesTagged("li") : ListOf(i) = ListOf(c) }
           IN  /\ Cardinality(items) = Cardinality(RecordsOfYear(y))
               /\ \A k \in RecordsOfYear(y) :
                      Cardinality({ i \in items : html_lines[i].entry = entries[k] })
                          = Cardinality({ n \in RecordsOfYear(y) : entries[n] = entries[k] })

\* a group of three whose input order is not its author order, and whose missing
\* author comes first
C9_Witness ==
    /\ Rendered
    /\ Len(entries) = 3
    /\ Len(sorted_years) = 1
    /\ RawAuthor(entries[1]) = AuthorDeWit
    /\ RawAuthor(entries[2]) = AuthorLee
    /\ "author" \notin DOMAIN entries[3]
    /\ html_lines[3].entry = entries[3]
    /\ html_lines[4].entry = entries[2]
    /\ html_lines[5].entry = entries[1]

\* the entity names html.escape writes
Entities ==
    { <<"a", "m", "p", ";">>, <<"l", "t", ";">>, <<"g", "t", ";">>,
      <<"q", "u", "o", "t", ";">>, <<"#", "x", "2", "7", ";">> }

\* no raw markup character: no <, >, " or ', and & only at the start of an entity
Escaped(str) ==
    \A i \in 1..Len(str) :
        /\ str[i] \notin {"<", ">", "\"", "'"}
        /\ str[i] = "&" => \E e \in Entities : StartsWith(SubSeq(str, i + 1, Len(str)), e)

\* C10: every record-derived text embedded in the HTML (the year heading, the title,
\* the href, the authors, the venue) is HTML-escaped.
C10_EmbeddedTextEscaped ==
    /\ \A i \in LinesTagged("h3") : Escaped(html_lines[i].year)
    /\ \A i \in LinesTagged("li") :
           /\ Escaped(html_lines[i].title)
           /\ Escaped(html_lines[i].authors)
           /\ Escaped(html_lines[i].venue)
           /\ html_lines[i].href # None => Escaped(html_lines[i].href)

---------------------------------------------------------------------------
(* Claims about latex_to_unicode *)

MacroNames == { _SPECIAL_MACROS[i][1] : i \in 1..Len(_SPECIAL_MACROS) }

MacroChars == { _SPECIAL_MACROS[i][2] : i \in 1..Len(_SPECIAL_MACROS) }

\* a backslash followed by letters only: one control word
IsControlWord(str) ==
    /\ Len(str) >= 2
    /\ str[1] = "\\"
    /\ \A i \in 2..Len(str) : str[i] \in Letters

\* C7: special macros are whole-token, exact-match replacements: a macro alone maps
\* to its own table character (a longer macro is not shadowed by a shorter one), and
\* a control word that is not in the table, though a table macro is its prefix, is
\* not replaced: no table character appears in its result.
C7_MacrosAreWholeTokens ==
    pc = "returned" =>
        /\ \A i \in 1..Len(_SPECIAL_MACROS) :
               text = _SPECIAL_MACROS[i][1] => s = <<_SPECIAL_MACROS[i][2]>>
        /\ (IsControlWord(text) /\ text \notin MacroNames) =>
               \A i \in 1..Len(s) : s[i] \notin MacroChars

---------------------------------------------------------------------------
(* Claims about format_authors *)

\* the word "and", in any letter case, at position i of str with whitespace on both sides
AndWordAt(str, i) ==
    /\ i >= 2
    /\ i + 3 <= Len(str)
    /\ str[i - 1] \in Whitespace
    /\ Lower(SubSeq(str, i, i + 2)) = <<"a", "n", "d">>
    /\ str[i + 3] \in Whitespace

AllBlank(str, from, to) == \A k \in from..to : str[k] \in Whitespace

\* the number of segments with a character that is not whitespace, between the words
\* "and" at the positions in `seps`
SegmentsBetween(str, seps) ==
    LET starts == {1} \cup { i + 3 : i \in seps }
        EndOf(a) == IF \E i \in seps : i >= a
                    THEN (CHOOSE i \in seps : i >= a /\ \A j \in seps : j >= a => i <= j) - 1
                    ELSE Len(str)
    IN  Cardinality({ a \in starts : ~AllBlank(str, a, EndOf(a)) })

\* every word "and" with whitespace on both sides
AndWords(str) == { i \in 1..Len(str) : AndWordAt(str, i) }

\* the words "and" a left-to-right scan takes as separators: each separator takes the
\* whitespace around it, so a word "and" that only blanks part from the separator
\* before it has no whitespace left on its left and is no separator
RECURSIVE ScannedUpTo(_, _)
ScannedUpTo(str, n) ==
    IF n = 0 THEN {}
    ELSE LET before == ScannedUpTo(str, n - 1)
         IN  IF /\ AndWordAt(str, n)
                /\ ~\E j \in before : AllBlank(str, j + 3, n - 1)
             THEN before \cup {n}
             ELSE before

ScannedAndWords(str) == ScannedUpTo(str, Len(str))

Trimmed == Strip(authors_raw, Whitespace)

DoeAndAnderson ==
    <<"J", ".", " ", "D", "o", "e", " ", "a", "n", "d", " ", "K", ".", " ",
      "A", "n", "d", "e", "r", "s", "o", "n">>

\* C8 as claimed: the number of names is the number of non-empty segments between the
\* words "and" that have whitespace on both sides.
C8_NamesBetweenAndWords ==
    (pc = "returned" /\ Truthy(authors_raw)) =>
        Len(norm_parts) = SegmentsBetween(Trimmed, AndWords(Trimmed))

\* C8: format_authors splits the trimmed author string only at words "and" (any
\* letter case) with whitespace on both sides, taken left to right with the whitespace
\* around them, never inside a word: the number of names is the number of non-empty
\* segments between the separators of that scan, and "J. Doe and K. Anderson" yields
\* exactly two names.
C8_NamesBetweenScannedAndWords ==
    (pc = "returned" /\ Truthy(authors_raw)) =>
        /\ Len(norm_parts) = SegmentsBetween(Trimmed, ScannedAndWords(Trimmed))
        /\ authors_raw = DoeAndAnderson => Len(norm_parts) = 2

\* a split happened next to a name that holds "and" inside a word
C8_Witness ==
    /\ pc = "returned"
    /\ authors_raw = DoeAndAnderson
    /\ Len(norm_parts) = 2
    /\ ScannedAndWords(Trimmed) = {8}

====
